---- MODULE Spec2Model ----
(***************************************************************************)
(* Model of legal_app.py (Compliance HQ): the status classifier, the       *)
(* spreadsheet import loop, the AI audit path and the session gating.      *)
(*                                                                         *)
(* Python values are tagged records: None, the float NaN of an empty       *)
(* spreadsheet cell, and str (a sequence of one-character strings).        *)
(* Every Streamlit interaction re-runs the script top to bottom; one       *)
(* action of the model is one such script pass.                            *)
(***************************************************************************)
EXTENDS Integers, Sequences, FiniteSets, TLC

VARIABLES
    user,       \* st.session_state["user"]: PyNone or a user
    store,      \* table "subcontractors": sequence of rows, in insertion order
    documents,  \* number of rows of table "documents"
    up_file,    \* the uploaded spreadsheet (df_raw), or PyNone
    sel,        \* the four column dropdowns: col_name, col_date, col_job, col_cont
    safe_days,  \* the "Warning Threshold" selectbox
    today,      \* datetime.date.today(), as a proleptic Gregorian ordinal
    msg,        \* what the last script pass displayed
    calls,      \* the backend calls the last script pass made, in order
    log,        \* per spreadsheet row, what the last import did with it
    found_date, \* what ask_ai_to_read_date returned in the last pass, if called
    probe       \* one call of get_status: its arguments and its result

vars == <<user, store, documents, up_file, sel, safe_days, today,
          msg, calls, log, found_date, probe>>

-----------------------------------------------------------------------------
(* Python values and str methods *)

PyNone == [t |-> "None"]
PyNaN == [t |-> "nan"]
PyStr(s) == [t |-> "str", s |-> s]
\* a pandas Timestamp at midnight (a date cell of an Excel sheet), and NaT
PyTs(y, m, d) == [t |-> "ts", y |-> y, m |-> m, d |-> d]
PyNaT == [t |-> "NaT"]

Range(f) == {f[i] : i \in DOMAIN f}

Upper == <<"A","B","C","D","E","F","G","H","I","J","K","L","M",
           "N","O","P","Q","R","S","T","U","V","W","X","Y","Z">>
Lowercase == <<"a","b","c","d","e","f","g","h","i","j","k","l","m",
               "n","o","p","q","r","s","t","u","v","w","x","y","z">>
Digits == <<"0","1","2","3","4","5","6","7","8","9">>
Whitespace == {" ", "\t", "\n"}
\* the grave accent character (U+0060), and the code fence made of three
BackTick == "U+0060"
Fence == <<BackTick, BackTick, BackTick>>

\* str.lower(), one character
LowerChar(c) ==
    IF \E i \in DOMAIN Upper : Upper[i] = c
    THEN Lowercase[CHOOSE i \in DOMAIN Upper : Upper[i] = c]
    ELSE c

\* str.lower()
lower(s) == [i \in DOMAIN s |-> LowerChar(s[i])]

\* str.strip(): leading and trailing whitespace removed
strip(s) ==
    LET keep == {i \in DOMAIN s : s[i] \notin Whitespace}
    IN  IF keep = {} THEN <<>>
        ELSE LET lo == CHOOSE i \in keep : \A j \in keep : i <= j
                 hi == CHOOSE i \in keep : \A j \in keep : j <= i
             IN  SubSeq(s, lo, hi)

\* whether pat occurs in s at position i
MatchAt(s, pat, i) ==
    /\ i + Len(pat) - 1 <= Len(s)
    /\ \A k \in 1..Len(pat) : s[i + k - 1] = pat[k]

\* Python's `pat in s`
Contains(s, pat) == \E i \in 1..(Len(s) + 1) : MatchAt(s, pat, i)

RECURSIVE replace(_, _)
\* str.replace(pat, ""): every non-overlapping occurrence, left to right
replace(s, pat) ==
    IF s = <<>> THEN <<>>
    ELSE IF MatchAt(s, pat, 1)
         THEN replace(SubSeq(s, Len(pat) + 1, Len(s)), pat)
         ELSE <<Head(s)>> \o replace(Tail(s), pat)

\* pd.notna(x)
notna(x) == x.t \notin {"nan", "NaT", "None"}

-----------------------------------------------------------------------------
(* Dates: datetime.date ordinals, strftime('%Y-%m-%d'), pd.to_datetime *)

IsLeap(y) == (y % 4 = 0) /\ ((y % 100 # 0) \/ (y % 400 = 0))

DaysInMonth(y, m) ==
    IF m = 2 THEN (IF IsLeap(y) THEN 29 ELSE 28)
    ELSE IF m \in {4, 6, 9, 11} THEN 30 ELSE 31

RECURSIVE DaysBeforeMonth(_, _)
DaysBeforeMonth(y, m) ==
    IF m = 1 THEN 0 ELSE DaysBeforeMonth(y, m - 1) + DaysInMonth(y, m - 1)

\* datetime.date(y, m, d).toordinal()
Ordinal(y, m, d) ==
    LET p == y - 1
    IN  p * 365 + (p \div 4) - (p \div 100) + (p \div 400)
        + DaysBeforeMonth(y, m) + d

Pad2(n) == <<Digits[((n \div 10) % 10) + 1], Digits[(n % 10) + 1]>>
Pad4(n) == Pad2(n \div 100) \o Pad2(n % 100)

\* the text 'YYYY-MM-DD' of year y, month m, day d, as strftime('%Y-%m-%d')
\* writes it (the digits are written whether or not the date exists)
IsoText(y, m, d) == Pad4(y) \o <<"-">> \o Pad2(m) \o <<"-">> \o Pad2(d)

Midnight == <<" ","0","0",":","0","0",":","0","0">>

\* str(x) of a spreadsheet cell
str(x) ==
    CASE x.t = "str" -> x.s
      [] x.t = "nan" -> <<"n","a","n">>
      [] x.t = "NaT" -> <<"N","a","T">>
      [] x.t = "ts" -> IsoText(x.y, x.m, x.d) \o Midnight
      [] x.t = "None" -> <<"N","o","n","e">>

IsDigit(c) == c \in Range(Digits)
DigitVal(c) == (CHOOSE i \in DOMAIN Digits : Digits[i] = c) - 1
Num2(s, i) == DigitVal(s[i]) * 10 + DigitVal(s[i + 1])

\* the shape YYYY-MM-DD, with or without the time 00:00:00 after it
IsoShape(s) ==
    /\ Len(s) >= 10
    /\ s[5] = "-" /\ s[8] = "-"
    /\ \A i \in {1, 2, 3, 4, 6, 7, 9, 10} : IsDigit(s[i])
    /\ SubSeq(s, 11, Len(s)) \in {<<>>, Midnight}

\* texts pandas reads as a missing value (its nat_strings, and "")
NaTTexts == { <<>>, <<"n","a","n">>, <<"N","a","N">>, <<"N","A","N">>,
              <<"N","a","T">>, <<"n","a","t">>, <<"N","A","T">> }

\* pd.to_datetime(text) of a str: a Timestamp (kind "ts", with the ordinal
\* of its date), NaT, or a parse error.  Only ISO 'YYYY-MM-DD' texts (with
\* or without ' 00:00:00') are read as dates here; every other text the
\* model feeds it is one pandas rejects.
to_datetime_text(s) ==
    IF s \in NaTTexts THEN [kind |-> "NaT"]
    ELSE IF IsoShape(s)
         THEN LET y == Num2(s, 1) * 100 + Num2(s, 3)
                  m == Num2(s, 6)
                  d == Num2(s, 9)
              IN  IF y >= 1 /\ m \in 1..12 /\ d \in 1..DaysInMonth(y, m)
                  THEN [kind |-> "ts", y |-> y, m |-> m, d |-> d,
                        ord |-> Ordinal(y, m, d)]
                  ELSE [kind |-> "error"]
         ELSE [kind |-> "error"]

\* pd.to_datetime(x): None and NaN give NaT
to_datetime(x) ==
    IF x.t = "str" THEN to_datetime_text(x.s) ELSE [kind |-> "NaT"]

\* pd.to_datetime(x, errors='coerce'): a parse error gives NaT
to_datetime_coerce(x) ==
    LET r == to_datetime(x)
    IN  IF r.kind = "error" THEN [kind |-> "NaT"] ELSE r

\* Timestamp.strftime('%Y-%m-%d')
strftime(ts) == IsoText(ts.y, ts.m, ts.d)

-----------------------------------------------------------------------------
(* The status classifier *)

\* get_status_days with the window's upper end taken as inclusive
get_status_days_le(days_left, warning_days) ==
    IF days_left < 0 THEN "EXPIRED"
    ELSE IF days_left <= warning_days THEN "WARNING"
    ELSE "SAFE"

\* the arithmetic of get_status once the date is read
get_status_days(days_left, warning_days) ==
    IF days_left < 0 THEN "EXPIRED"
    ELSE IF days_left < warning_days THEN "WARNING"
    ELSE "SAFE"

\* get_status_at without the test of the completeness flag
get_status_at_noflag(date_str, data_status, warning_days, now) ==
    IF \/ date_str = PyNone
       \/ date_str = PyStr(<<>>)
       \/ date_str = PyStr(<<"N","o","n","e">>)
    THEN "MISSING"
    ELSE LET r == to_datetime(date_str)
         IN  IF r.kind = "ts"
             THEN IF r.ord - now < 0 THEN "EXPIRED"
                  ELSE IF r.ord - now < warning_days THEN "WARNING"
                  ELSE "SAFE"
             ELSE "MISSING"

\* get_status(date_str, data_status, warning_days), with
\* datetime.date.today() = now.  `not date_str` is true of None and of "";
\* a parse error, and NaT.date() - date (a TypeError), are caught by the
\* bare except.
get_status_at(date_str, data_status, warning_days, now) ==
    IF \/ data_status = "incomplete"
       \/ date_str = PyNone
       \/ date_str = PyStr(<<>>)
       \/ date_str = PyStr(<<"N","o","n","e">>)
    THEN "MISSING"
    ELSE LET r == to_datetime(date_str)
         IN  IF r.kind = "ts"
             THEN get_status_days(r.ord - now, warning_days)
             ELSE "MISSING"

\* get_status as the script calls it
get_status(date_str, data_status, warning_days) ==
    get_status_at(date_str, data_status, warning_days, today)

-----------------------------------------------------------------------------
(* Bounds and inputs *)

\* most rows the table "subcontractors" holds for the tenant
MaxStore == 3
\* most rows the table "documents" holds
MaxDocs == 1

\* st.secrets["general"]["tenant_id"], and some other tenant of the store
DEFAULT_TENANT_ID == "tenant-1"
OTHER_TENANT_ID == "tenant-2"

\* the options of the "Warning Threshold" selectbox, and its index=1
WarningWindows == {30, 60, 90}
DefaultWindow == CHOOSE w \in WarningWindows : w = 60

Skip == <<"(","S","k","i","p",")">>

cName == <<"N","a","m","e">>
cExp == <<"E","x","p">>
cRef == <<"R","e","f">>
cNote == <<"N","o","t","e">>
cWorker == <<"W","o","r","k","e","r">>

nA == <<"A">>
nB == <<"B">>
nC == <<"C">>

\* an uploaded spreadsheet as pandas reads it: its columns, which of them
\* have dtype object/string, and its rows.  A cell is a str, NaN (empty), or
\* in a date column of an Excel sheet a Timestamp or NaT.
File1 ==
    [cols |-> <<cExp, cName>>,
     text |-> {cName},
     rows |-> << <<PyTs(2025, 7, 1), PyStr(nA)>>,
                 <<PyNaT, PyStr(<<" ","A","\t">>)>>,
                 <<PyTs(2025, 7, 1), PyNaN>>,
                 <<PyTs(2025, 5, 31), PyStr(nB)>> >>]
File2 ==
    [cols |-> <<cRef, cWorker, cExp>>,
     text |-> {cWorker},
     rows |-> << <<PyNaN, PyStr(nC), PyTs(2025, 6, 1)>>,
                 <<PyNaN, PyStr(<<"N","A","N">>), PyTs(2025, 6, 1)>>,
                 <<PyNaN, PyStr(<<" ">>), PyNaT>> >>]
File3 ==
    [cols |-> <<cNote, cWorker>>,
     text |-> {cNote, cWorker},
     rows |-> << <<PyStr(<<" ">>), PyStr(nC)>> >>]
File4 ==
    [cols |-> <<cExp>>,
     text |-> {},
     rows |-> << <<PyTs(2025, 7, 1)>> >>]
Files == {File1, File2, File3, File4}

\* a row of table "subcontractors"
Row(id, tenant, nm, dt, trade, phone, status) ==
    [id |-> id, tenant_id |-> tenant, name |-> nm,
     insurance_expiry_date |-> dt, trade |-> trade, phone |-> phone,
     data_status |-> status]

\* what the table holds when the session starts: a row of another tenant
InitStores ==
    { << Row(1, OTHER_TENANT_ID, nA, PyStr(IsoText(2025, 7, 1)), PyNone,
             PyNone, "verified") >> }

\* the texts the vision model answers with (resp.text): a date in a code
\* fence, a date in a fenced json block, NOT_FOUND, and a date that does
\* not exist
AIDate == <<" ">> \o Fence \o IsoText(2025, 5, 31) \o Fence \o <<"\n">>
AITexts ==
    { AIDate,
      Fence \o <<"j","s","o","n","\n">> \o IsoText(2025, 5, 31) \o <<"\n">> \o Fence,
      <<"N","O","T","_","F","O","U","N","D">>,
      IsoText(2025, 13, 45) }

\* what the generate_content calls of one extraction do, in call order:
\* PyNone when the call raises; the loop stops at the first answer.  The
\* first model answers any of the texts, or a later model answers the first
\* of them after the ones before it raised, or all three raise.
AIOutcomes ==
    { <<PyStr(t)>> : t \in AITexts }
    \cup { <<PyNone, PyStr(AIDate)>>, <<PyNone, PyNone, PyStr(AIDate)>>,
           <<PyNone, PyNone, PyNone>> }

Emails == {"a@example.com"}

-----------------------------------------------------------------------------
(* Column selectors *)

\* st.selectbox(label, options, index=0) before the user touches it
selectbox_default(options) ==
    IF options = <<>> THEN PyNone ELSE PyStr(options[1])

\* text_cols without the filter by dtype
text_cols_all(f) == f.cols

\* text_cols: the object/string columns, or every column if there is none
text_cols(f) ==
    LET t == SelectSeq(f.cols, LAMBDA c : c \in f.text)
    IN  IF t = <<>> THEN f.cols ELSE t

\* date_opts: "Remove Name from Date options"
date_opts(f, col_name) ==
    SelectSeq(f.cols, LAMBDA c : PyStr(c) # col_name)

job_opts(f, col_name, col_date) ==
    <<Skip>> \o SelectSeq(f.cols, LAMBDA c : PyStr(c) \notin {col_name, col_date})

cont_opts(f, col_name, col_date, col_job) ==
    <<Skip>> \o SelectSeq(f.cols,
                          LAMBDA c : PyStr(c) \notin {col_name, col_date, col_job})

\* the values a selectbox can return
Choices(options) ==
    IF options = <<>> THEN {PyNone} ELSE {PyStr(o) : o \in Range(options)}

NoSel == [col_name |-> PyNone, col_date |-> PyNone,
          col_job |-> PyNone, col_cont |-> PyNone]

\* the four dropdowns as first shown for spreadsheet f
default_selection(f) ==
    LET n == selectbox_default(text_cols(f))
        d == selectbox_default(date_opts(f, n))
        j == selectbox_default(job_opts(f, n, d))
        c == selectbox_default(cont_opts(f, n, d, j))
    IN  [col_name |-> n, col_date |-> d, col_job |-> j, col_cont |-> c]

\* every combination the user can set the four dropdowns to: each value
\* is one of the options its dropdown lists
Selections(f) ==
    UNION { UNION { UNION {
        { [col_name |-> n, col_date |-> d, col_job |-> j, col_cont |-> c] :
            c \in Choices(cont_opts(f, n, d, j)) } :
          j \in Choices(job_opts(f, n, d)) } :
        d \in Choices(date_opts(f, n)) } :
      n \in Choices(text_cols(f)) }

-----------------------------------------------------------------------------
(* The import loop *)

\* row[col]: the cell of column col, or a KeyError if col is not a column
HasCol(f, col) == col.t = "str" /\ \E i \in DOMAIN f.cols : f.cols[i] = col.s
Cell(f, row, col) == row[CHOOSE i \in DOMAIN f.cols : f.cols[i] = col.s]

\* select("name").eq("tenant_id", DEFAULT_TENANT_ID): exist_names
tenant_names(st) ==
    {st[i].name : i \in {k \in DOMAIN st : st[k].tenant_id = DEFAULT_TENANT_ID}}

\* the skip test of the loop
skip_row(nm, exist_names) ==
    nm = <<>> \/ lower(nm) = <<"n","a","n">> \/ nm \in exist_names

\* "Parse Date": db_dt
parse_db_dt(cell) ==
    LET parsed == to_datetime_coerce(PyStr(strip(str(cell))))
    IN  IF parsed.kind = "ts" THEN PyStr(strftime(parsed)) ELSE PyNone

\* "Optional Fields"
optional_val(f, row, col) ==
    IF col # PyStr(Skip) /\ notna(Cell(f, row, col))
    THEN PyStr(str(Cell(f, row, col))) ELSE PyNone

\* the payload of one accepted row; the table gives the row its id
payload(f, s, row, nm, id) ==
    LET db_dt == parse_db_dt(Cell(f, row, s.col_date))
    IN  Row(id, DEFAULT_TENANT_ID, nm, db_dt,
            optional_val(f, row, s.col_job), optional_val(f, row, s.col_cont),
            IF db_dt # PyNone THEN "verified" ELSE "incomplete")

\* the log entries of the rows from i on, none of which the loop reached
not_reached(f, i) ==
    [k \in 1..(Len(f.rows) - i + 1) |-> [out |-> "not_reached"]]

RECURSIVE import_loop_caught(_, _, _, _, _, _, _, _)
\* import_loop with the insert wrapped in a per-row try/except: a row whose
\* insert raises is passed over and the loop goes on
import_loop_caught(f, s, exist_names, failAt, i, st, acc, lg) ==
    IF i > Len(f.rows)
    THEN [store |-> st, count |-> acc.count, ins |-> acc.ins, log |-> lg,
          raised |-> FALSE]
    ELSE
      LET row == f.rows[i]
          nm == strip(str(Cell(f, row, s.col_name)))
          had == nm \in tenant_names(st)
      IN  IF skip_row(nm, exist_names)
          THEN import_loop_caught(f, s, exist_names, failAt, i + 1, st, acc,
                           Append(lg, [out |-> "skipped", nm |-> nm, had |-> had]))
          ELSE IF ~HasCol(f, s.col_date)
          THEN [store |-> st, count |-> acc.count, ins |-> acc.ins,
                log |-> Append(lg, [out |-> "key_error", nm |-> nm, had |-> had])
                          \o not_reached(f, i + 1),
                raised |-> TRUE]
          ELSE IF acc.ins + 1 = failAt
          THEN import_loop_caught(f, s, exist_names, failAt, i + 1, st,
                           [count |-> acc.count, ins |-> acc.ins + 1],
                           Append(lg, [out |-> "insert_raised", nm |-> nm, had |-> had]))
          ELSE import_loop_caught(f, s, exist_names, failAt, i + 1,
                           Append(st, payload(f, s, row, nm, Len(st) + 1)),
                           [count |-> acc.count + 1, ins |-> acc.ins + 1],
                           Append(lg, [out |-> "inserted", nm |-> nm, had |-> had]))

RECURSIVE import_loop(_, _, _, _, _, _, _, _)
\* for i, row in df_raw.iterrows(), from row i on: st is the table so far,
\* count the counter, ins the insert calls made, lg the log; the failAt-th
\* insert call raises (0: none does).  An exception leaves the loop and the
\* handler at once.
import_loop(f, s, exist_names, failAt, i, st, acc, lg) ==
    IF i > Len(f.rows)
    THEN [store |-> st, count |-> acc.count, ins |-> acc.ins, log |-> lg,
          raised |-> FALSE]
    ELSE
      LET row == f.rows[i]
          nm == strip(str(Cell(f, row, s.col_name)))
          had == nm \in tenant_names(st)
      IN  IF skip_row(nm, exist_names)
          THEN import_loop(f, s, exist_names, failAt, i + 1, st, acc,
                           Append(lg, [out |-> "skipped", nm |-> nm, had |-> had]))
          ELSE IF ~HasCol(f, s.col_date)
          THEN [store |-> st, count |-> acc.count, ins |-> acc.ins,
                log |-> Append(lg, [out |-> "key_error", nm |-> nm, had |-> had])
                          \o not_reached(f, i + 1),
                raised |-> TRUE]
          ELSE IF acc.ins + 1 = failAt
          THEN [store |-> st, count |-> acc.count, ins |-> acc.ins + 1,
                log |-> Append(lg, [out |-> "insert_raised", nm |-> nm, had |-> had])
                          \o not_reached(f, i + 1),
                raised |-> TRUE]
          ELSE import_loop(f, s, exist_names, failAt, i + 1,
                           Append(st, payload(f, s, row, nm, Len(st) + 1)),
                           [count |-> acc.count + 1, ins |-> acc.ins + 1],
                           Append(lg, [out |-> "inserted", nm |-> nm, had |-> had]))

\* the "Import Data Now" handler on table st
import_handler(f, s, st, failAt) ==
    import_loop(f, s, tenant_names(st), failAt, 1, st,
                [count |-> 0, ins |-> 0], <<>>)

-----------------------------------------------------------------------------
(* The AI audit path *)

\* models = ["gemini-2.0-flash", "gemini-1.5-flash-latest", "gemini-pro-vision"]
Models == 1..3

RECURSIVE ask_ai_from(_, _)
\* the loop `for m in models` from model k on: outcomes[k] is what
\* generate_content does for the k-th model, PyNone when the call (or
\* resp.text) raises
ask_ai_from(outcomes, k) ==
    IF k \notin Models
    THEN <<"N","O","T","_","F","O","U","N","D">>
    ELSE IF outcomes[k] = PyNone
         THEN ask_ai_from(outcomes, k + 1)
         ELSE replace(replace(strip(outcomes[k].s), Fence), <<"j","s","o","n">>)

ask_ai_to_read_date(outcomes) == ask_ai_from(outcomes, 1)

\* len(found_date) == 10 and found_date[4] == '-'
date_shaped(text) == Len(text) = 10 /\ text[5] = "-"

\* the rows of the tenant, in table order
tenant_rows(st) == SelectSeq(st, LAMBDA r : r.tenant_id = DEFAULT_TENANT_ID)

\* sorted(res.data, key=lambda x: x['data_status'] == 'verified'): stable
workers(st) ==
    SelectSeq(tenant_rows(st), LAMBDA r : r.data_status # "verified")
    \o SelectSeq(tenant_rows(st), LAMBDA r : r.data_status = "verified")

\* w_map[name]: a dict comprehension keeps the last worker of each name
w_map(st, name) ==
    LET w == workers(st)
        last == CHOOSE i \in DOMAIN w :
                    /\ w[i].name = name
                    /\ \A j \in DOMAIN w : w[j].name = name => j <= i
    IN  w[last].id

\* the update request of line 362 once executed: the row of id wk_id gets
\* the text as its date and becomes "verified"
update_eq_execute(st, wk_id, text) ==
    [i \in DOMAIN st |->
        IF st[i].id = wk_id
        THEN [st[i] EXCEPT !.insurance_expiry_date = PyStr(text),
                           !.data_status = "verified"]
        ELSE st[i]]

\* supabase.table("subcontractors").update({...}).eq("id", wk_id): the
\* request is built and dropped, no .execute() follows it (unlike the
\* requests of lines 224, 281, 308, 341 and 357), so nothing is sent and
\* the table is what it was
update_eq(st, wk_id, text) == st

-----------------------------------------------------------------------------
(* The dashboard *)

\* res.data of line 224
df == tenant_rows(store)

\* df["Status"]
Status(i) ==
    get_status(df[i].insurance_expiry_date, df[i].data_status, safe_days)

\* len(df[df["Status"] in which])
count_status(which) == Cardinality({i \in DOMAIN df : Status(i) \in which})

\* the fourth metric counting the expired workers only
metric_expired_only == count_status({"EXPIRED"})

metric_total == Len(df)
metric_valid == count_status({"SAFE"})
metric_expiring == count_status({"WARNING"})
metric_expired_missing == count_status({"EXPIRED", "MISSING"})

\* the rows of the four tables
table_valid == {i \in DOMAIN df : Status(i) = "SAFE"}
table_warning == {i \in DOMAIN df : Status(i) = "WARNING"}
table_expired == {i \in DOMAIN df : Status(i) = "EXPIRED"}
table_missing == {i \in DOMAIN df : Status(i) = "MISSING"}

-----------------------------------------------------------------------------
(* Script passes *)

NoProbe == [state |-> "idle"]

\* the calls every pass through the main application makes when no button
\* is pressed: the dashboard's select and the audit tab's select
MainCalls == <<"select_subcontractors", "select_workers">>

Init ==
    /\ user = PyNone
    /\ store \in InitStores
    /\ documents = 0
    /\ up_file = PyNone
    /\ sel = NoSel
    /\ safe_days = DefaultWindow
    /\ today = Ordinal(2025, 6, 1)
    /\ msg = [kind |-> "none"]
    /\ calls = <<>>
    /\ log = <<>>
    /\ found_date = PyNone
    /\ probe = NoProbe

\* "Log In": login(l_email, l_pass)
Login ==
    /\ user = PyNone
    /\ \E email \in Emails, ok \in BOOLEAN :
        /\ user' = IF ok THEN [t |-> "user", email |-> email] ELSE user
        /\ msg' = IF ok THEN [kind |-> "none"]
                  ELSE [kind |-> "invalid_credentials"]
    /\ calls' = <<"sign_in">>
    /\ log' = <<>>
    /\ found_date' = PyNone
    /\ UNCHANGED <<store, documents, up_file, sel, safe_days, today, probe>>

\* "Create Account": signup(s_email, s_pass)
Signup ==
    /\ user = PyNone
    /\ \E email \in Emails, ok \in BOOLEAN :
        /\ user' = IF ok THEN [t |-> "user", email |-> email] ELSE user
        /\ msg' = IF ok THEN [kind |-> "account_created"]
                  ELSE [kind |-> "signup_error"]
    /\ calls' = <<"sign_up">>
    /\ log' = <<>>
    /\ found_date' = PyNone
    /\ UNCHANGED <<store, documents, up_file, sel, safe_days, today, probe>>

\* logout(), given whether supabase.auth.sign_out() raises
logout(raises) ==
    IF raises
    THEN /\ msg' = [kind |-> "exception"]
         /\ UNCHANGED <<user, up_file, sel, safe_days>>
    ELSE /\ user' = PyNone
         /\ msg' = [kind |-> "none"]
         /\ up_file' = PyNone
         /\ sel' = NoSel
         /\ safe_days' = DefaultWindow

\* "Log Out" in the sidebar; the widgets of the main application are gone
\* once the authentication screen is drawn instead
Logout ==
    /\ user # PyNone
    /\ \E raises \in BOOLEAN : logout(raises)
    /\ calls' = <<"sign_out">>
    /\ log' = <<>>
    /\ found_date' = PyNone
    /\ UNCHANGED <<store, documents, today, probe>>

\* a pass in which no button is pressed (st.rerun(), or any redraw)
Render ==
    /\ msg' = [kind |-> "none"]
    /\ calls' = IF user = PyNone THEN <<>> ELSE MainCalls
    /\ log' = <<>>
    /\ found_date' = PyNone
    /\ UNCHANGED <<user, store, documents, up_file, sel, safe_days,
                   today, probe>>

\* the "Warning Threshold" selectbox
SelectThreshold ==
    /\ user # PyNone
    /\ \E w \in WarningWindows : safe_days' = w
    /\ msg' = [kind |-> "none"]
    /\ calls' = MainCalls
    /\ log' = <<>>
    /\ found_date' = PyNone
    /\ UNCHANGED <<user, store, documents, up_file, sel, today, probe>>

\* a spreadsheet is dropped on the uploader: the dropdowns show their defaults
Upload ==
    /\ user # PyNone
    /\ \E f \in Files :
        /\ up_file' = f
        /\ sel' = default_selection(f)
    /\ msg' = [kind |-> "none"]
    /\ calls' = MainCalls
    /\ log' = <<>>
    /\ found_date' = PyNone
    /\ UNCHANGED <<user, store, documents, safe_days, today, probe>>

\* the user sets the column dropdowns
SelectColumns ==
    /\ user # PyNone
    /\ up_file # PyNone
    /\ \E x \in Selections(up_file) : sel' = x
    /\ msg' = [kind |-> "none"]
    /\ calls' = MainCalls
    /\ log' = <<>>
    /\ found_date' = PyNone
    /\ UNCHANGED <<user, store, documents, up_file, safe_days, today, probe>>

\* "Import Data Now"
Import ==
    /\ user # PyNone
    /\ up_file # PyNone
    /\ sel.col_name # sel.col_date
    /\ \E failAt \in 0..import_handler(up_file, sel, store, 0).ins :
        LET r == import_handler(up_file, sel, store, failAt)
        IN  /\ Len(tenant_rows(r.store)) <= MaxStore
            /\ store' = r.store
            /\ log' = r.log
            /\ calls' = <<"select_subcontractors", "select_names">>
                        \o [k \in 1..r.ins |-> "insert_subcontractor"]
            /\ msg' = IF r.raised THEN [kind |-> "exception"]
                      ELSE [kind |-> "import_success", count |-> r.count]
    /\ found_date' = PyNone
    /\ UNCHANGED <<user, documents, up_file, sel, safe_days, today, probe>>

\* the handler of "Run AI Extraction" once the certificate is stored and
\* recorded: ask the model, and update the worker if the answer is
\* date-shaped
extract_and_update(sel_wk, outcomes) ==
    LET wk_id == w_map(store, sel_wk)
        found == ask_ai_to_read_date(outcomes)
    IN  /\ found_date' = PyStr(found)
        /\ calls' = MainCalls \o <<"storage_upload", "insert_document">>
        /\ IF date_shaped(found)
           THEN /\ msg' = [kind |-> "ai_updated"]
                /\ store' = update_eq(store, wk_id, found)
           ELSE /\ msg' = [kind |-> "ai_error"]
                /\ UNCHANGED store

\* "Run AI Extraction" with a certificate uploaded, when storing the
\* certificate raises: the upload itself, or the insert into "documents"
RunExtractionFails ==
    /\ user # PyNone
    /\ tenant_names(store) # {}
    /\ \E at \in {"upload", "document"} :
        calls' = MainCalls \o (IF at = "upload" THEN <<"storage_upload">>
                               ELSE <<"storage_upload", "insert_document">>)
    /\ msg' = [kind |-> "exception"]
    /\ log' = <<>>
    /\ found_date' = PyNone
    /\ UNCHANGED <<user, store, documents, up_file, sel, safe_days, today, probe>>

\* "Run AI Extraction" for worker sel_wk with a certificate uploaded
RunExtraction ==
    /\ user # PyNone
    /\ documents < MaxDocs
    /\ \E sel_wk \in tenant_names(store), outcomes \in AIOutcomes :
        extract_and_update(sel_wk, outcomes)
    /\ documents' = documents + 1
    /\ log' = <<>>
    /\ UNCHANGED <<user, up_file, sel, safe_days, today, probe>>

\* the session: every pass but the threshold selectbox, which changes
\* nothing but the dashboard drawn (SpecDashboard)
Next ==
    \/ Login
    \/ Signup
    \/ Logout
    \/ Render
    \/ Upload
    \/ SelectColumns
    \/ Import
    \/ RunExtractionFails
    \/ RunExtraction

Spec == Init /\ [][Next]_vars

-----------------------------------------------------------------------------
(* The classifier on its own: one call of get_status per behaviour *)

ProbeYears == {2024, 2025}
ProbeMonths == 0..13
ProbeDays == 0..32

\* the date_str arguments: every 'YYYY-MM-DD' text of the years, months and
\* days above, dates that do not exist among them (ymd keeps the numbers
\* the text was written from), and values that are no date text at all
ProbeDates ==
    { [ymd |-> <<y, m, d>>, date_str |-> PyStr(IsoText(y, m, d))] :
        y \in ProbeYears, m \in ProbeMonths, d \in ProbeDays }
    \cup
    { [ymd |-> <<>>, date_str |-> x] :
        x \in { PyNone, PyNaN, PyStr(<<>>), PyStr(<<"N","o","n","e">>),
                PyStr(<<"N","a","T">>),
                PyStr(<<"N","O","T","_","F","O","U","N","D">>) } }

Todays == {Ordinal(2025, 6, 1), Ordinal(2024, 12, 31), Ordinal(2024, 2, 29)}

InitClassify ==
    /\ user = PyNone
    /\ store = <<>>
    /\ documents = 0
    /\ up_file = PyNone
    /\ sel = NoSel
    /\ safe_days = DefaultWindow
    /\ today \in Todays
    /\ msg = [kind |-> "none"]
    /\ calls = <<>>
    /\ log = <<>>
    /\ found_date = PyNone
    /\ \E p \in ProbeDates, st \in {"verified", "incomplete"},
          w \in WarningWindows :
        probe = [state |-> "asked", ymd |-> p.ymd, date_str |-> p.date_str,
                 data_status |-> st, warning_days |-> w, result |-> ""]

\* get_status is called
Classify ==
    /\ probe.state = "asked"
    /\ probe' = [probe EXCEPT
                    !.state = "answered",
                    !.result = get_status(probe.date_str, probe.data_status,
                                          probe.warning_days)]
    /\ UNCHANGED <<user, store, documents, up_file, sel, safe_days, today,
                   msg, calls, log, found_date>>

NextClassify == Classify

SpecClassify == InitClassify /\ [][NextClassify]_vars

-----------------------------------------------------------------------------
(* The dashboard on its own: a table of rows, and the threshold selectbox *)

\* most rows of the table a dashboard is drawn from
MaxDashRows == 3

DashDay == [y |-> 2025, m |-> 6, d |-> 1]

\* the rows a table can hold: verified rows expiring 1 day ago, today, and
\* in 30, 60 and 90 days; an incomplete row; a row verified by the AI audit
\* with a date that does not exist; a row of another tenant
DashKinds ==
    { [tenant_id |-> DEFAULT_TENANT_ID, data_status |-> "verified",
       insurance_expiry_date |-> PyStr(IsoText(2025, x[1], x[2]))] :
        x \in { <<5, 31>>, <<6, 1>>, <<7, 1>>, <<7, 31>>, <<8, 30>> } }
    \cup
    { [tenant_id |-> DEFAULT_TENANT_ID, data_status |-> "incomplete",
       insurance_expiry_date |-> PyNone],
      [tenant_id |-> DEFAULT_TENANT_ID, data_status |-> "verified",
       insurance_expiry_date |-> PyStr(IsoText(2025, 13, 45))],
      [tenant_id |-> OTHER_TENANT_ID, data_status |-> "verified",
       insurance_expiry_date |-> PyStr(IsoText(2025, 7, 1))] }

DashStores ==
    UNION { { [i \in 1..n |->
                Row(i, k[i].tenant_id, <<"W", Digits[i + 1]>>,
                    k[i].insurance_expiry_date, PyNone, PyNone,
                    k[i].data_status)] :
              k \in [1..n -> DashKinds] } : n \in 0..MaxDashRows }

InitDashboard ==
    /\ user = [t |-> "user", email |-> CHOOSE e \in Emails : TRUE]
    /\ store \in DashStores
    /\ documents = 0
    /\ up_file = PyNone
    /\ sel = NoSel
    /\ safe_days = DefaultWindow
    /\ today = Ordinal(DashDay.y, DashDay.m, DashDay.d)
    /\ msg = [kind |-> "none"]
    /\ calls = MainCalls
    /\ log = <<>>
    /\ found_date = PyNone
    /\ probe = NoProbe

NextDashboard ==
    \/ SelectThreshold
    \/ Render

SpecDashboard == InitDashboard /\ [][NextDashboard]_vars

-----------------------------------------------------------------------------
(* Column mapper of the specification (section 4.2); no code of the       *)
(* script computes it                                                      *)

NameHints == { <<"n","a","m","e">>, <<"w","o","r","k","e","r">>,
               <<"c","o","m","p","a","n","y">> }

\* the first column whose lowercased name contains a hint keyword, or none
find_col(cols, hints) ==
    LET hit == {i \in DOMAIN cols : \E h \in hints : Contains(lower(cols[i]), h)}
    IN  IF hit = {} THEN PyNone
        ELSE PyStr(cols[CHOOSE i \in hit : \A j \in hit : i <= j])

-----------------------------------------------------------------------------
(* Properties *)

\* what the claims say of a probe, from the numbers its text was written from
ProbeIsDate ==
    /\ probe.ymd # <<>>
    /\ probe.ymd[2] \in 1..12
    /\ probe.ymd[3] >= 1
    /\ probe.ymd[3] <= DaysInMonth(probe.ymd[1], probe.ymd[2])
ProbeDaysLeft == Ordinal(probe.ymd[1], probe.ymd[2], probe.ymd[3]) - today

\* C1: for a record that is not "incomplete" and whose date parses,
\* get_status returns EXPIRED exactly when days_left < 0, WARNING exactly
\* when 0 <= days_left < warning_days, and SAFE exactly when
\* days_left >= warning_days, for every window in {30, 60, 90}.
C1_StatusByDaysLeft ==
    (probe.state = "answered" /\ probe.data_status # "incomplete" /\ ProbeIsDate)
    => /\ probe.warning_days \in {30, 60, 90}
       /\ (probe.result = "EXPIRED") <=> (ProbeDaysLeft < 0)
       /\ (probe.result = "WARNING")
            <=> (0 <= ProbeDaysLeft /\ ProbeDaysLeft < probe.warning_days)
       /\ (probe.result = "SAFE") <=> (ProbeDaysLeft >= probe.warning_days)

\* C1 witness: a date exactly warning_days ahead has been classified SAFE
C1_Witness ==
    /\ probe.state = "answered"
    /\ probe.data_status = "verified"
    /\ ProbeIsDate
    /\ ProbeDaysLeft = probe.warning_days
    /\ probe.result = "SAFE"

\* C2: get_status returns MISSING for a null, empty or unparseable date, and
\* whenever the completeness flag is "incomplete" whatever the date is; it
\* always returns one of SAFE, WARNING, EXPIRED, MISSING.
C2_MissingAndTotal ==
    probe.state = "answered"
    => /\ probe.result \in {"SAFE", "WARNING", "EXPIRED", "MISSING"}
       /\ (probe.data_status = "incomplete" \/ ~ProbeIsDate)
            => probe.result = "MISSING"

\* C2 witness: an incomplete record with a valid future date got MISSING
C2_Witness ==
    /\ probe.state = "answered"
    /\ probe.data_status = "incomplete"
    /\ ProbeIsDate
    /\ ProbeDaysLeft > 0
    /\ probe.result = "MISSING"

\* the tenant's rows named nm
NamedRows(st, nm) ==
    {i \in DOMAIN st : st[i].tenant_id = DEFAULT_TENANT_ID /\ st[i].name = nm}

\* C3: the import loop never creates two records with the same name for
\* the same tenant: no pass makes the number of the tenant's records of a
\* name grow beyond one.
C3_NoDuplicateNames ==
    [][\A i \in DOMAIN store' :
          Cardinality(NamedRows(store', store'[i].name))
            > Cardinality(NamedRows(store, store'[i].name))
          => Cardinality(NamedRows(store', store'[i].name)) <= 1]_vars

LogIdx(lg, out) == {i \in DOMAIN lg : lg[i].out = out}

\* C5: if the insert for the k-th accepted row raises, no later row is
\* written, the rows written before it stay in the table, the failed row is
\* not retried, and the success message is not produced.
C5_FailureAbortsImport ==
    [][LogIdx(log', "insert_raised") # {}
       => LET k == CHOOSE i \in LogIdx(log', "insert_raised") : TRUE
              done == LogIdx(log', "inserted")
          IN  /\ LogIdx(log', "insert_raised") = {k}
              /\ \A i \in DOMAIN log' : i > k => log'[i].out = "not_reached"
              /\ \A i \in done : i < k
              /\ Len(store') = Len(store) + Cardinality(done)
              /\ SubSeq(store', 1, Len(store)) = store
              /\ Cardinality({i \in DOMAIN calls' :
                                calls'[i] = "insert_subcontractor"})
                   = Cardinality(done) + 1
              /\ msg'.kind = "exception"]_vars

\* C5 witness: the insert of the second accepted row raised, with a row
\* written before it and an acceptable row after it
C5_Witness ==
    /\ Len(log) = 4
    /\ log[1].out = "inserted"
    /\ log[2].out = "insert_raised"
    /\ log[4].out = "not_reached"
    /\ msg.kind = "exception"
    /\ Cardinality(NamedRows(store, nA)) = 1

C7_MapperPreselects ==
    [][(up_file' # up_file /\ up_file' # PyNone)
       => sel'.col_name = find_col(up_file'.cols, NameHints)]_vars

\* C7 as amended: each dropdown pre-selects the first entry of its option
\* list: the first object/string column (the first column if there is
\* none) for the name, the first column other than it for the expiry date
\* (none if there is no other), and "(Skip)" for job title and contact.
C7_FirstOptionPreselected ==
    [][(up_file' # up_file /\ up_file' # PyNone)
       => LET f == up_file'
              txt == {i \in DOMAIN f.cols : f.cols[i] \in f.text}
              ni == IF txt = {} THEN 1
                    ELSE CHOOSE i \in txt : \A j \in txt : i <= j
              rest == {i \in DOMAIN f.cols : i # ni}
          IN  /\ sel'.col_name = PyStr(f.cols[ni])
              /\ sel'.col_date =
                   IF rest = {} THEN PyNone
                   ELSE PyStr(f.cols[CHOOSE i \in rest : \A j \in rest : i <= j])
              /\ sel'.col_job = PyStr(Skip)
              /\ sel'.col_cont = PyStr(Skip)]_vars

\* C7 witness: a sheet whose first column is not text has been uploaded
\* and its dropdowns show their defaults
C7_Witness ==
    /\ up_file = File2
    /\ sel = [col_name |-> PyStr(cWorker), col_date |-> PyStr(cRef),
              col_job |-> PyStr(Skip), col_cont |-> PyStr(Skip)]

\* C8: a row is skipped exactly when its stripped name is blank, is "nan",
\* or is the name of a record already existing for the tenant; on success
\* the count reported is the number of inserts performed.
C8_SkipExactly ==
    /\ \A i \in DOMAIN log :
         log[i].out \in {"skipped", "inserted"}
         => ((log[i].out = "skipped")
              <=> \/ log[i].nm = <<>>
                  \/ lower(log[i].nm) = <<"n","a","n">>
                  \/ log[i].had)
    /\ msg.kind = "import_success"
         => /\ msg.count = Cardinality(LogIdx(log, "inserted"))
            /\ msg.count = Cardinality({i \in DOMAIN calls :
                                          calls[i] = "insert_subcontractor"})

DataCalls == {"select_subcontractors", "select_names", "select_workers",
              "insert_subcontractor",
              "insert_document", "storage_upload"}

\* C9: the session user starts as None; while it is None no subcontractor
\* or document read, insert, update or storage upload is performed; a
\* failed login leaves the user None; a successful login or sign-up sets
\* the user; logout always returns the session user to None.
C9_SessionGating ==
    [][/\ user = PyNone
          => /\ \A i \in DOMAIN calls' : calls'[i] \notin DataCalls
             /\ store' = store /\ documents' = documents
       /\ msg'.kind \in {"invalid_credentials", "signup_error"} => user' = PyNone
       /\ (calls' \in {<<"sign_in">>, <<"sign_up">>}
           /\ msg'.kind \in {"none", "account_created"}) => user' # PyNone
       /\ calls' = <<"sign_out">> => user' = PyNone]_vars

\* C10: every worker has exactly one of the four statuses, so "Total
\* Workforce" = "Valid" + "Expiring Soon" + "Expired/Missing", and every
\* worker is in exactly one of the four tables.
C10_DashboardPartition ==
    df # <<>>
    => /\ \A i \in DOMAIN df :
            Status(i) \in {"SAFE", "WARNING", "EXPIRED", "MISSING"}
       /\ metric_total = metric_valid + metric_expiring + metric_expired_missing
       /\ \A i \in DOMAIN df :
            Cardinality({t \in {"valid", "warning", "expired", "missing"} :
                i \in (CASE t = "valid" -> table_valid
                         [] t = "warning" -> table_warning
                         [] t = "expired" -> table_expired
                         [] t = "missing" -> table_missing)}) = 1

\* C10 witness: with the 30-day window selected, a table of three workers
\* shows one valid, one expiring soon and one expired or missing
C10_Witness ==
    /\ safe_days = 30
    /\ metric_total = 3
    /\ metric_valid = 1
    /\ metric_expiring = 1
    /\ metric_expired_missing = 1

====
